---- MODULE Spec2Model ----
(***************************************************************************)
(* File integrity monitor: scan / hash / baseline / diff pipeline.         *)
(*                                                                         *)
(* Python strings are sequences of one-character strings, so that          *)
(* os.path.join, os.path.basename, str.split and fnmatch are computed on   *)
(* the characters.  Python dicts are functions; a dict with fixed keys is  *)
(* a record.                                                               *)
(***************************************************************************)
EXTENDS Integers, Sequences, FiniteSets, TLC

(***************************************************************************)
(* Strings and paths                                                       *)
(***************************************************************************)
sep == "/"

\* the empty dict / empty object
EmptyDict == [x \in {} |-> x]

\* s[i..] as a sequence (empty when i > Len(s))
Drop(s, i) == IF i > Len(s) THEN <<>> ELSE SubSeq(s, i, Len(s))

\* index of the last separator of path, 0 when there is none
RECURSIVE LastSep(_, _)
LastSep(path, i) ==
    IF i = 0 THEN 0
    ELSE IF path[i] = sep THEN i
    ELSE LastSep(path, i - 1)

\* os.path.basename (posixpath): what follows the last separator
basename(path) == Drop(path, LastSep(path, Len(path)) + 1)

\* str.split(os.sep): the components between separators, empty ones included
RECURSIVE SplitFrom(_, _, _)
SplitFrom(path, i, cur) ==
    IF i > Len(path) THEN <<cur>>
    ELSE IF path[i] = sep THEN <<cur>> \o SplitFrom(path, i + 1, <<>>)
    ELSE SplitFrom(path, i + 1, Append(cur, path[i]))

split(path) == SplitFrom(path, 1, <<>>)

\* join that always puts a separator between the two
join_always(a, b) == a \o <<sep>> \o b

\* os.path.join(a, b) for a relative b (posixpath)
join(a, b) ==
    IF a = <<>> \/ a[Len(a)] = sep THEN a \o b
    ELSE a \o <<sep>> \o b

(***************************************************************************)
(* fnmatch.fnmatch on POSIX: '*' any run of characters (separators too),   *)
(* '?' any one character, '[seq]' / '[!seq]' one character of a set,       *)
(* anything else itself.  An unclosed '[' is a literal.                    *)
(***************************************************************************)
\* index of the ']' closing the class opened at pat[j] = '[', 0 when unclosed
RECURSIVE ClassScan(_, _)
ClassScan(pat, k) ==
    IF k > Len(pat) THEN 0
    ELSE IF pat[k] = "]" THEN k
    ELSE ClassScan(pat, k + 1)

ClassEnd(pat, j) ==
    LET a == IF j + 1 <= Len(pat) /\ pat[j + 1] = "!" THEN j + 2 ELSE j + 1
        b == IF a <= Len(pat) /\ pat[a] = "]" THEN a + 1 ELSE a
    IN  ClassScan(pat, b)

ClassHas(pat, j, c) ==
    LET neg   == pat[j + 1] = "!"
        first == IF neg THEN j + 2 ELSE j + 1
        mem   == \E k \in first .. (ClassEnd(pat, j) - 1) : pat[k] = c
    IN  IF neg THEN ~mem ELSE mem

RECURSIVE GlobMatch(_, _, _, _)
GlobMatch(name, i, pat, j) ==
    IF j > Len(pat) THEN i > Len(name)
    ELSE IF pat[j] = "*"
         THEN GlobMatch(name, i, pat, j + 1)
              \/ (i <= Len(name) /\ GlobMatch(name, i + 1, pat, j))
    ELSE IF i > Len(name) THEN FALSE
    ELSE IF pat[j] = "?" THEN GlobMatch(name, i + 1, pat, j + 1)
    ELSE IF pat[j] = "[" /\ ClassEnd(pat, j) > 0
         THEN ClassHas(pat, j, name[i])
              /\ GlobMatch(name, i + 1, pat, ClassEnd(pat, j) + 1)
    ELSE name[i] = pat[j] /\ GlobMatch(name, i + 1, pat, j + 1)

fnmatch(name, pat) == GlobMatch(name, 1, pat, 1)

(***************************************************************************)
(* constants.py                                                            *)
(***************************************************************************)
DEFAULT_ALGORITHM == <<"sha256">>

\* the digests hashlib.new is asked for
SUPPORTED_ALGORITHMS ==
    { <<"m","d","5">>, <<"s","h","a","1">>, <<"sha256">>,
      <<"s","h","a","5","1","2">>, <<"b","l","a","k","e","2","b">> }

DEFAULT_IGNORE_PATTERNS ==
    << <<"_","_","p","y","c","a","c","h","e","_","_">>,
       <<"*",".","p","y","c">>,
       <<"*",".","p","y","o">>,
       <<".","g","i","t">>,
       <<".","g","i","t","i","g","n","o","r","e">>,
       <<".","D","S","_","S","t","o","r","e">>,
       <<"T","h","u","m","b","s",".","d","b">>,
       <<"*",".","l","o","g">>,
       <<".","v","s","c","o","d","e">>,
       <<".","i","d","e","a">>,
       <<"n","o","d","e","_","m","o","d","u","l","e","s">>,
       <<"v","e","n","v">>,
       <<"e","n","v">>,
       <<".","e","n","v">> >>

(***************************************************************************)
(* ignore_handler.py: an IgnoreHandler is its pattern list                 *)
(***************************************************************************)
\* should_ignore that tests the basename only
should_ignore_basename(patterns, path) ==
    \E n \in 1 .. Len(patterns) : fnmatch(basename(path), patterns[n])

\* IgnoreHandler.should_ignore
should_ignore(patterns, path) ==
    LET base       == basename(path)
        path_parts == split(path)
    IN  \E n \in 1 .. Len(patterns) :
            \/ fnmatch(base, patterns[n])
            \/ fnmatch(path, <<"*">> \o patterns[n] \o <<"*">>)
            \/ \E k \in 1 .. Len(path_parts) : fnmatch(path_parts[k], patterns[n])

\* add_pattern without the membership test
add_pattern_always(patterns, pattern) == Append(patterns, pattern)

\* IgnoreHandler.add_pattern
add_pattern(patterns, pattern) ==
    IF \E n \in 1 .. Len(patterns) : patterns[n] = pattern
    THEN patterns
    ELSE Append(patterns, pattern)

\* IgnoreHandler.get_patterns: a copy of the list
get_patterns(patterns) == [n \in 1 .. Len(patterns) |-> patterns[n]]

(***************************************************************************)
(* The directory tree.  The directories are fixed; every file slot is      *)
(* either absent or holds a file.  A slot is the list of path components   *)
(* below the scanned root.                                                 *)
(***************************************************************************)
fA == << <<"a">> >>
fL == << <<"q",".","l","o","g">> >>
fC == << <<"s">>, <<"c">> >>
fK == << <<"e","n","v">>, <<"t">>, <<"k">> >>
fB == << <<"b","l">> >>

\* the slots in the order in which a directory listing returns them
SlotOrder == << fA, fB, fL, fC, fK >>
Slots     == { SlotOrder[n] : n \in 1 .. Len(SlotOrder) }
UserSlots == Slots \ {fB}

\* what a directory entry that os.walk lists as a file can be
\*   ok       regular readable file
\*   denied   open() fails with PermissionError
\*   gone     dangling link, or removed after the listing: FileNotFoundError
\*   statfail removed between hashing and os.stat: OSError from os.stat
\*   fifo     exists but is not a regular file
Conds == {"ok", "denied", "gone", "statfail", "fifo"}

NoFile == [exists |-> FALSE, content |-> <<>>, mtime |-> 0, cond |-> "ok"]

File(content, mtime, cond) ==
    [exists |-> TRUE, content |-> content, mtime |-> mtime, cond |-> cond]

IsPrefix(r, s) == Len(r) <= Len(s) /\ SubSeq(s, 1, Len(r)) = r

\* names of the files listed in directory rel, in listing order
RECURSIVE FilesIn(_, _, _)
FilesIn(tree, rel, n) ==
    IF n > Len(SlotOrder) THEN <<>>
    ELSE LET s == SlotOrder[n] IN
         (IF Len(s) = Len(rel) + 1 /\ IsPrefix(rel, s) /\ tree[s].exists
          THEN <<s[Len(s)]>> ELSE <<>>) \o FilesIn(tree, rel, n + 1)

\* names of the subdirectories of directory rel, in listing order, once each
RECURSIVE DirsIn(_, _, _)
DirsIn(rel, n, seen) ==
    IF n > Len(SlotOrder) THEN <<>>
    ELSE LET s == SlotOrder[n] IN
         IF Len(s) > Len(rel) + 1 /\ IsPrefix(rel, s) /\ s[Len(rel) + 1] \notin seen
         THEN <<s[Len(rel) + 1]>> \o DirsIn(rel, n + 1, seen \cup {s[Len(rel) + 1]})
         ELSE DirsIn(rel, n + 1, seen)

\* the path string os.walk builds for the entry rel below top
RECURSIVE PathOf(_, _)
PathOf(top, rel) ==
    IF rel = <<>> THEN top
    ELSE join(PathOf(top, SubSeq(rel, 1, Len(rel) - 1)), rel[Len(rel)])

(***************************************************************************)
(* Number and time formatting                                              *)
(***************************************************************************)
Digits == <<"0","1","2","3","4","5","6","7","8","9">>

\* str(int) of a non-negative integer
RECURSIVE FormatInt(_)
FormatInt(n) ==
    IF n < 10 THEN <<Digits[n + 1]>>
    ELSE Append(FormatInt(n \div 10), Digits[(n % 10) + 1])

IsDigit(c) == \E d \in 1 .. 10 : Digits[d] = c
DigitVal(c) == (CHOOSE d \in 1 .. 10 : Digits[d] = c) - 1

IsNumber(s) == Len(s) > 0 /\ \A k \in 1 .. Len(s) : IsDigit(s[k])

\* int(text) of a digit string
RECURSIVE ParseInt(_)
ParseInt(s) ==
    IF Len(s) = 1 THEN DigitVal(s[1])
    ELSE 10 * ParseInt(SubSeq(s, 1, Len(s) - 1)) + DigitVal(s[Len(s)])

\* datetime.fromtimestamp(t).isoformat()
isoformat(t) == <<"T">> \o FormatInt(t)

(***************************************************************************)
(* Dicts.  A str key is a sequence of characters; the field names are      *)
(* written as one-element sequences.                                       *)
(***************************************************************************)
K(name) == <<name>>

Has(d, name) == K(name) \in DOMAIN d

\* the keys of a dict in its iteration order: some fixed order
RECURSIVE SetToSeq(_)
SetToSeq(S) ==
    IF S = {} THEN <<>>
    ELSE LET e == CHOOSE e \in S : TRUE IN <<e>> \o SetToSeq(S \ {e})

Keys(d) == SetToSeq(DOMAIN d)

\* the elements of a sequence
Range(q) == { q[n] : n \in 1 .. Len(q) }

\* the dict scan_directory stores for a file, lines 69-74
FileRecord(hash, size, modified, algorithm) ==
    (K("hash") :> hash) @@ (K("size") :> size)
    @@ (K("modified") :> modified) @@ (K("algorithm") :> algorithm)

(***************************************************************************)
(* hash_calculator.py                                                      *)
(***************************************************************************)
\* the hex digest: a function of the algorithm and of the bytes, injective
\* in the bytes (no collisions)
hexdigest(algorithm, content) == algorithm \o <<":">> \o content

\* calculate_file_hash: err is "none" or the exception type it raises
calculate_file_hash(file, algorithm) ==
    IF file.cond = "gone" THEN [err |-> "FileNotFoundError", hash |-> <<>>]
    ELSE IF file.cond = "fifo" THEN [err |-> "ValueError", hash |-> <<>>]
    ELSE IF algorithm \notin SUPPORTED_ALGORITHMS
         THEN [err |-> "ValueError", hash |-> <<>>]
    ELSE IF file.cond = "denied" THEN [err |-> "PermissionError", hash |-> <<>>]
    ELSE [err |-> "none", hash |-> hexdigest(algorithm, file.content)]

\* os.stat: err is "none" or "OSError"
os_stat(file) ==
    IF file.cond \in {"gone", "statfail"}
    THEN [err |-> "OSError", st_size |-> 0, st_mtime |-> 0]
    ELSE [err |-> "none", st_size |-> Len(file.content), st_mtime |-> file.mtime]

\* the exception types that are OSError or a subclass of it
OSErrors == {"OSError", "PermissionError", "FileNotFoundError"}

(***************************************************************************)
(* scanner.py                                                              *)
(*                                                                         *)
(* The state of one scan: raised is "none" or the exception that ended it; *)
(* visited, tested, hashed and stated record which directories os.walk     *)
(* listed and on which paths should_ignore, calculate_file_hash and        *)
(* os.stat were called.                                                    *)
(***************************************************************************)
ScanStart ==
    [raised |-> "none", results |-> EmptyDict, file_count |-> 0,
     skipped_count |-> 0, failed |-> {}, visited |-> {}, tested |-> {},
     hashed |-> {}, stated |-> {}]

\* ScanFile whose except clause catches every exception
ScanFile_catchAll(acc, tree, top, rel, filename, algorithm, patterns) ==
    LET file_path == join(PathOf(top, rel), filename)
        file      == tree[Append(rel, filename)]
        t         == [acc EXCEPT !.tested = @ \cup {file_path}]
    IN  IF acc.raised # "none" THEN acc
        ELSE IF should_ignore(patterns, file_path)
             THEN [t EXCEPT !.skipped_count = @ + 1]
        ELSE LET h  == calculate_file_hash(file, algorithm)
                 th == [t EXCEPT !.hashed = @ \cup {file_path}]
             IN  IF h.err # "none"
                 THEN [th EXCEPT !.skipped_count = @ + 1,
                                 !.failed = @ \cup {file_path}]
                 ELSE LET st  == os_stat(file)
                          ths == [th EXCEPT !.stated = @ \cup {file_path}]
                      IN  IF st.err # "none"
                          THEN [ths EXCEPT !.skipped_count = @ + 1,
                                           !.failed = @ \cup {file_path}]
                          ELSE [ths EXCEPT
                                  !.results = (file_path :>
                                      FileRecord(h.hash, st.st_size,
                                                 isoformat(st.st_mtime),
                                                 algorithm)) @@ @,
                                  !.file_count = @ + 1]

\* ScanFile whose except clause catches PermissionError only
ScanFile_permissionOnly(acc, tree, top, rel, filename, algorithm, patterns) ==
    LET file_path == join(PathOf(top, rel), filename)
        file      == tree[Append(rel, filename)]
        t         == [acc EXCEPT !.tested = @ \cup {file_path}]
    IN  IF acc.raised # "none" THEN acc
        ELSE IF should_ignore(patterns, file_path)
             THEN [t EXCEPT !.skipped_count = @ + 1]
        ELSE LET h  == calculate_file_hash(file, algorithm)
                 th == [t EXCEPT !.hashed = @ \cup {file_path}]
             IN  IF h.err = "PermissionError"
                 THEN [th EXCEPT !.skipped_count = @ + 1,
                                 !.failed = @ \cup {file_path}]
                 ELSE IF h.err # "none" THEN [th EXCEPT !.raised = h.err]
                 ELSE LET st  == os_stat(file)
                          ths == [th EXCEPT !.stated = @ \cup {file_path}]
                      IN  IF st.err # "none"
                          THEN [ths EXCEPT !.raised = st.err]
                          ELSE [ths EXCEPT
                                  !.results = (file_path :>
                                      FileRecord(h.hash, st.st_size,
                                                 isoformat(st.st_mtime),
                                                 algorithm)) @@ @,
                                  !.file_count = @ + 1]

\* the body of the loop over files, lines 52-87, for one filename
ScanFile(acc, tree, top, rel, filename, algorithm, patterns) ==
    LET file_path == join(PathOf(top, rel), filename)
        file      == tree[Append(rel, filename)]
        t         == [acc EXCEPT !.tested = @ \cup {file_path}]
    IN  IF acc.raised # "none" THEN acc
        ELSE IF should_ignore(patterns, file_path)
             THEN [t EXCEPT !.skipped_count = @ + 1]
        ELSE LET h  == calculate_file_hash(file, algorithm)
                 th == [t EXCEPT !.hashed = @ \cup {file_path}]
             IN  IF h.err \in OSErrors
                 THEN [th EXCEPT !.skipped_count = @ + 1,
                                 !.failed = @ \cup {file_path}]
                 ELSE IF h.err # "none" THEN [th EXCEPT !.raised = h.err]
                 ELSE LET st  == os_stat(file)
                          ths == [th EXCEPT !.stated = @ \cup {file_path}]
                      IN  IF st.err \in OSErrors
                          THEN [ths EXCEPT !.skipped_count = @ + 1,
                                           !.failed = @ \cup {file_path}]
                          ELSE [ths EXCEPT
                                  !.results = (file_path :>
                                      FileRecord(h.hash, st.st_size,
                                                 isoformat(st.st_mtime),
                                                 algorithm)) @@ @,
                                  !.file_count = @ + 1]

RECURSIVE ScanFiles(_, _, _, _, _, _, _, _)
ScanFiles(acc, tree, top, rel, files, n, algorithm, patterns) ==
    IF n > Len(files) THEN acc
    ELSE ScanFiles(ScanFile(acc, tree, top, rel, files[n], algorithm, patterns),
                   tree, top, rel, files, n + 1, algorithm, patterns)

\* KeepDirs that drops no directory
KeepDirs_keepAll(root, dirs, n, patterns) == dirs

\* KeepDirs that tests the name of the subdirectory, not the joined path
RECURSIVE KeepDirs_name(_, _, _, _)
KeepDirs_name(root, dirs, n, patterns) ==
    IF n > Len(dirs) THEN <<>>
    ELSE (IF should_ignore(patterns, dirs[n]) THEN <<>> ELSE <<dirs[n]>>)
         \o KeepDirs_name(root, dirs, n + 1, patterns)

\* line 50: the subdirectories that stay in dirs
RECURSIVE KeepDirs(_, _, _, _)
KeepDirs(root, dirs, n, patterns) ==
    IF n > Len(dirs) THEN <<>>
    ELSE (IF should_ignore(patterns, join(root, dirs[n])) THEN <<>> ELSE <<dirs[n]>>)
         \o KeepDirs(root, dirs, n + 1, patterns)

\* os.walk top-down: the loop body at rel, then the directories kept in dirs
RECURSIVE Walk(_, _, _, _, _, _)
RECURSIVE WalkDirs(_, _, _, _, _, _, _, _)
Walk(acc, tree, top, rel, algorithm, patterns) ==
    IF acc.raised # "none" THEN acc
    ELSE LET root == PathOf(top, rel)
             dirs == KeepDirs(root, DirsIn(rel, 1, {}), 1, patterns)
             here == ScanFiles([acc EXCEPT !.visited = @ \cup {root}], tree, top,
                               rel, FilesIn(tree, rel, 1), 1, algorithm, patterns)
         IN  WalkDirs(here, tree, top, rel, dirs, 1, algorithm, patterns)

WalkDirs(acc, tree, top, rel, dirs, n, algorithm, patterns) ==
    IF n > Len(dirs) THEN acc
    ELSE WalkDirs(Walk(acc, tree, top, Append(rel, dirs[n]), algorithm, patterns),
                  tree, top, rel, dirs, n + 1, algorithm, patterns)

\* the directory arguments a command is given, and what each names
TreeArg == <<"d">>
DirArgs == { TreeArg }

\* other spellings of the same directory, the working directory being cwd
Spellings ==
    { TreeArg, <<"d","/">>, <<".","/","d">>, <<"/","w","/","d">> }

\* directories whose own path has an ignored name, an ignored name before a
\* trailing separator, or a default pattern inside a component
IgnoredRoots ==
    { <<"e","n","v">>, <<"v","e","n","v","/">>, <<"/","w","/","m","y","e","n","v","s">> }

DirKind(directory_path) ==
    IF directory_path \in DirArgs \cup Spellings \cup IgnoredRoots
    THEN "dir" ELSE "missing"

\* scan_directory
scan_directory(tree, directory_path, algorithm, patterns) ==
    IF DirKind(directory_path) = "missing"
    THEN [ScanStart EXCEPT !.raised = "FileNotFoundError"]
    ELSE IF DirKind(directory_path) # "dir"
    THEN [ScanStart EXCEPT !.raised = "ValueError"]
    ELSE Walk(ScanStart, tree, directory_path, <<>>, algorithm, patterns)

(***************************************************************************)
(* The JSON text of a baseline file, one line of the indented document     *)
(* per element: <<tag, key, value>> with tag                               *)
(*   "{" "[" opening an object / array (under key, inside an object),      *)
(*   "}" "]" closing it,  "s" a string value,  "n" a number value.         *)
(***************************************************************************)
Line(tag, key, val) == << <<tag>>, key, val >>

\* DumpStrings writing the strings last to first
RECURSIVE DumpStrings_reversed(_, _)
DumpStrings_reversed(q, n) ==
    IF n > Len(q) THEN <<>>
    ELSE DumpStrings_reversed(q, n + 1) \o <<Line("s", <<>>, q[n])>>

\* a list of strings, one element per line
RECURSIVE DumpStrings(_, _)
DumpStrings(q, n) ==
    IF n > Len(q) THEN <<>>
    ELSE <<Line("s", <<>>, q[n])>> \o DumpStrings(q, n + 1)

DumpFile(path, rec) ==
    << Line("{", path, <<>>),
       Line("s", K("hash"), rec[K("hash")]),
       Line("n", K("size"), FormatInt(rec[K("size")])),
       Line("s", K("modified"), rec[K("modified")]),
       Line("s", K("algorithm"), rec[K("algorithm")]),
       Line("}", <<>>, <<>>) >>

RECURSIVE DumpFiles(_, _, _)
DumpFiles(files, keys, n) ==
    IF n > Len(keys) THEN <<>>
    ELSE DumpFile(keys[n], files[keys[n]]) \o DumpFiles(files, keys, n + 1)

\* json.dump(baseline, f, indent=2) of the dict create_baseline builds
json_dump(baseline) ==
    LET m == baseline[K("metadata")] IN
    << Line("{", <<>>, <<>>),
       Line("{", K("metadata"), <<>>),
       Line("s", K("created"), m[K("created")]),
       Line("s", K("directory"), m[K("directory")]),
       Line("s", K("algorithm"), m[K("algorithm")]),
       Line("n", K("file_count"), FormatInt(m[K("file_count")])),
       Line("[", K("ignore_patterns"), <<>>) >>
    \o DumpStrings(m[K("ignore_patterns")], 1)
    \o << Line("]", <<>>, <<>>),
          Line("}", <<>>, <<>>),
          Line("{", K("files"), <<>>) >>
    \o DumpFiles(baseline[K("files")], Keys(baseline[K("files")]), 1)
    \o << Line("}", <<>>, <<>>),
          Line("}", <<>>, <<>>) >>

\* the bytes of a text: what a digest of the file is computed on
RECURSIVE Flatten(_, _)
Flatten(text, n) ==
    IF n > Len(text) THEN <<>>
    ELSE text[n][1] \o text[n][2] \o text[n][3] \o Flatten(text, n + 1)

ParseFail == [ok |-> FALSE, val |-> <<>>, next |-> 0]

\* the JSON decoder: the value that starts at line i and the line after it
RECURSIVE ParseValue(_, _)
RECURSIVE ParseMembers(_, _, _)
RECURSIVE ParseElems(_, _, _)
ParseValue(text, i) ==
    IF i > Len(text) THEN ParseFail
    ELSE LET tag == text[i][1][1]
             val == text[i][3]
         IN  IF tag = "s" THEN [ok |-> TRUE, val |-> val, next |-> i + 1]
             ELSE IF tag = "n"
                  THEN IF IsNumber(val)
                       THEN [ok |-> TRUE, val |-> ParseInt(val), next |-> i + 1]
                       ELSE ParseFail
             ELSE IF tag = "{" THEN ParseMembers(text, i + 1, EmptyDict)
             ELSE IF tag = "[" THEN ParseElems(text, i + 1, <<>>)
             ELSE ParseFail

ParseMembers(text, i, obj) ==
    IF i > Len(text) THEN ParseFail
    ELSE IF text[i][1][1] = "}" THEN [ok |-> TRUE, val |-> obj, next |-> i + 1]
    ELSE LET r == ParseValue(text, i) IN
         IF ~r.ok THEN ParseFail
         ELSE ParseMembers(text, r.next, (text[i][2] :> r.val) @@ obj)

ParseElems(text, i, arr) ==
    IF i > Len(text) THEN ParseFail
    ELSE IF text[i][1][1] = "]" THEN [ok |-> TRUE, val |-> arr, next |-> i + 1]
    ELSE LET r == ParseValue(text, i) IN
         IF ~r.ok THEN ParseFail
         ELSE ParseElems(text, r.next, Append(arr, r.val))

\* json.load: ok is FALSE where it raises JSONDecodeError
json_load(text) ==
    LET r == ParseValue(text, 1) IN
    IF r.ok /\ r.next = Len(text) + 1 THEN r ELSE ParseFail

(***************************************************************************)
(* ignore_handler.py: construction                                         *)
(***************************************************************************)
\* str.strip() of a line of the ignore file
RECURSIVE strip(_)
strip(line) ==
    IF line = <<>> THEN line
    ELSE IF line[1] = " " THEN strip(Drop(line, 2))
    ELSE IF line[Len(line)] = " " THEN strip(SubSeq(line, 1, Len(line) - 1))
    ELSE line

\* IgnoreHandler._load_ignore_file: the patterns after reading lines n..
RECURSIVE load_ignore_file(_, _, _)
load_ignore_file(patterns, lines, n) ==
    IF n > Len(lines) THEN patterns
    ELSE LET line == strip(lines[n]) IN
         load_ignore_file(IF line # <<>> /\ line[1] # "#"
                          THEN Append(patterns, line) ELSE patterns,
                          lines, n + 1)

\* IgnoreHandler(): the defaults, then the lines of .fimignore when it exists
IgnoreHandler(ignfile) ==
    IF ignfile.exists
    THEN load_ignore_file(DEFAULT_IGNORE_PATTERNS, ignfile.lines, 1)
    ELSE DEFAULT_IGNORE_PATTERNS

RECURSIVE add_patterns(_, _, _)
add_patterns(patterns, more, n) ==
    IF n > Len(more) THEN patterns
    ELSE add_patterns(add_pattern(patterns, more[n]), more, n + 1)

(***************************************************************************)
(* baseline.py                                                             *)
(***************************************************************************)
cwd == <<"/","w">>

\* os.path.abspath of a relative path
abspath(path) == join(cwd, path)

\* the dict create_baseline builds, lines 39-48
Baseline(created, directory_path, algorithm, scan_results, patterns) ==
    (K("metadata") :>
        ((K("created") :> created)
         @@ (K("directory") :> abspath(directory_path))
         @@ (K("algorithm") :> algorithm)
         @@ (K("file_count") :> Cardinality(DOMAIN scan_results))
         @@ (K("ignore_patterns") :> get_patterns(patterns))))
    @@ (K("files") :> scan_results)

\* load_baseline: err is "none" or the exception type it raises
load_baseline(file) ==
    IF ~file.exists THEN [err |-> "FileNotFoundError", val |-> EmptyDict]
    ELSE LET r == json_load(file.text) IN
         IF ~r.ok THEN [err |-> "ValueError", val |-> EmptyDict]
         ELSE IF ~Has(r.val, "metadata") \/ ~Has(r.val[K("metadata")], "file_count")
              THEN [err |-> "KeyError", val |-> EmptyDict]
         ELSE [err |-> "none", val |-> r.val]

(***************************************************************************)
(* detector.py                                                             *)
(***************************************************************************)
NoChanges == [modified |-> <<>>, added |-> <<>>, deleted |-> <<>>, unchanged |-> <<>>]

\* CheckCurrent comparing the whole record instead of the hash
RECURSIVE CheckCurrent_cmpInfo(_, _, _, _, _)
CheckCurrent_cmpInfo(chg, keys, n, bfiles, cfiles) ==
    IF n > Len(keys) THEN chg
    ELSE LET file_path    == keys[n]
             current_info == cfiles[file_path]
         IN  CheckCurrent_cmpInfo(
               IF file_path \in DOMAIN bfiles
               THEN LET baseline_info == bfiles[file_path] IN
                    IF current_info # baseline_info
                    THEN [chg EXCEPT !.modified = Append(@,
                            [path |-> file_path,
                             old_hash |-> baseline_info[K("hash")],
                             new_hash |-> current_info[K("hash")],
                             old_size |-> baseline_info[K("size")],
                             new_size |-> current_info[K("size")],
                             old_modified |-> baseline_info[K("modified")],
                             new_modified |-> current_info[K("modified")]])]
                    ELSE [chg EXCEPT !.unchanged = Append(@, file_path)]
               ELSE [chg EXCEPT !.added = Append(@,
                            [path |-> file_path,
                             hash |-> current_info[K("hash")],
                             size |-> current_info[K("size")],
                             modified |-> current_info[K("modified")]])],
               keys, n + 1, bfiles, cfiles)

\* the loop over current_files.items(), lines 54-82
RECURSIVE CheckCurrent(_, _, _, _, _)
CheckCurrent(chg, keys, n, bfiles, cfiles) ==
    IF n > Len(keys) THEN chg
    ELSE LET file_path    == keys[n]
             current_info == cfiles[file_path]
         IN  CheckCurrent(
               IF file_path \in DOMAIN bfiles
               THEN LET baseline_info == bfiles[file_path] IN
                    IF current_info[K("hash")] # baseline_info[K("hash")]
                    THEN [chg EXCEPT !.modified = Append(@,
                            [path |-> file_path,
                             old_hash |-> baseline_info[K("hash")],
                             new_hash |-> current_info[K("hash")],
                             old_size |-> baseline_info[K("size")],
                             new_size |-> current_info[K("size")],
                             old_modified |-> baseline_info[K("modified")],
                             new_modified |-> current_info[K("modified")]])]
                    ELSE [chg EXCEPT !.unchanged = Append(@, file_path)]
               ELSE [chg EXCEPT !.added = Append(@,
                            [path |-> file_path,
                             hash |-> current_info[K("hash")],
                             size |-> current_info[K("size")],
                             modified |-> current_info[K("modified")]])],
               keys, n + 1, bfiles, cfiles)

\* CheckDeleted without the test of line 85
RECURSIVE CheckDeleted_noGuard(_, _, _, _, _)
CheckDeleted_noGuard(chg, keys, n, bfiles, cfiles) ==
    IF n > Len(keys) THEN chg
    ELSE LET file_path == keys[n] IN
         CheckDeleted_noGuard(
               [chg EXCEPT !.deleted = Append(@,
                            [path |-> file_path,
                             hash |-> bfiles[file_path][K("hash")],
                             size |-> bfiles[file_path][K("size")]])],
               keys, n + 1, bfiles, cfiles)

\* the loop over baseline_files, lines 84-91
RECURSIVE CheckDeleted(_, _, _, _, _)
CheckDeleted(chg, keys, n, bfiles, cfiles) ==
    IF n > Len(keys) THEN chg
    ELSE LET file_path == keys[n] IN
         CheckDeleted(
               IF file_path \notin DOMAIN cfiles
               THEN [chg EXCEPT !.deleted = Append(@,
                            [path |-> file_path,
                             hash |-> bfiles[file_path][K("hash")],
                             size |-> bfiles[file_path][K("size")]])]
               ELSE chg,
               keys, n + 1, bfiles, cfiles)

\* Classify without the loop over baseline_files
Classify_currentOnly(bfiles, cfiles) ==
    CheckCurrent(NoChanges, Keys(cfiles), 1, bfiles, cfiles)

\* lines 45-91: the ChangeSet of a baseline's files and a current scan
Classify(bfiles, cfiles) ==
    CheckDeleted(CheckCurrent(NoChanges, Keys(cfiles), 1, bfiles, cfiles),
                 Keys(bfiles), 1, bfiles, cfiles)

\* lines 36-40: the ignore handler of the re-scan
CheckPatterns(ignfile, metadata) ==
    IF Has(metadata, "ignore_patterns")
    THEN add_patterns(IgnoreHandler(ignfile), metadata[K("ignore_patterns")], 1)
    ELSE IgnoreHandler(ignfile)

\* compare_with_baseline up to the scan: err is "none" or the exception raised
compare_with_baseline(tree, ignfile, file, directory_path) ==
    LET l == load_baseline(file) IN
    IF l.err # "none"
    THEN [err |-> l.err, bfiles |-> EmptyDict, patterns |-> <<>>, algorithm |-> <<>>,
          scan |-> ScanStart]
    ELSE IF ~Has(l.val, "files") \/ ~Has(l.val[K("metadata")], "algorithm")
    THEN [err |-> "KeyError", bfiles |-> EmptyDict, patterns |-> <<>>,
          algorithm |-> <<>>, scan |-> ScanStart]
    ELSE LET patterns == CheckPatterns(ignfile, l.val[K("metadata")])
             sc == scan_directory(tree, directory_path,
                                  l.val[K("metadata")][K("algorithm")], patterns)
         IN  [err |-> sc.raised, bfiles |-> l.val[K("files")],
              patterns |-> patterns,
              algorithm |-> l.val[K("metadata")][K("algorithm")], scan |-> sc]

(***************************************************************************)
(* config_loader.py                                                        *)
(*                                                                         *)
(* A JSON value is a node: a dict node with its items, or a value node     *)
(* with the text of the value (a string, a number, true, a list).         *)
(***************************************************************************)
Val(v) == [kind |-> "val", items |-> EmptyDict, v |-> v]
Dict(items) == [kind |-> "dict", items |-> items, v |-> ""]

\* no config.json
NoConfigFile == [exists |-> FALSE, parses |-> FALSE, doc |-> Val("")]

\* the value of the default parameter of ConfigLoader.get
None == Val("None")

\* lines 40-60
default_config ==
    Dict((K("default_algorithm") :> Val(DEFAULT_ALGORITHM[1]))
      @@ (K("default_baseline_file") :> Val("baseline.json"))
      @@ (K("default_ignore_file") :> Val(".fimignore"))
      @@ (K("chunk_size") :> Val("65536"))
      @@ (K("logging") :>
            Dict((K("enabled") :> Val("True"))
              @@ (K("log_file") :> Val("file_monitor.log"))
              @@ (K("log_level") :> Val("INFO"))
              @@ (K("console_output") :> Val("True"))))
      @@ (K("display") :>
            Dict((K("separator_length") :> Val("50"))
              @@ (K("hash_display_length") :> Val("16"))
              @@ (K("verbose") :> Val("True"))))
      @@ (K("ignore_patterns") :>
            Dict((K("use_default_patterns") :> Val("True"))
              @@ (K("custom_patterns") :> Val("[]")))))

\* {**default_config, **file_config}: the top-level keys of both, the value
\* of file_config where it has the key
DictMerge(a, b) ==
    Dict([k \in DOMAIN a.items \cup DOMAIN b.items |->
            IF k \in DOMAIN b.items THEN b.items[k] ELSE a.items[k]])

\* ConfigLoader._load_config on a file that is absent, or holds text that
\* json.load rejects (parses = FALSE), or holds the JSON value doc
load_config(file) ==
    IF ~file.exists THEN default_config
    ELSE IF ~file.parses THEN default_config            \* JSONDecodeError
    ELSE IF file.doc.kind # "dict" THEN default_config  \* TypeError at line 69
    ELSE DictMerge(default_config, file.doc)

\* key.split('.')
RECURSIVE SplitDots(_, _, _)
SplitDots(key, i, cur) ==
    IF i > Len(key) THEN <<cur>>
    ELSE IF key[i] = "." THEN <<cur>> \o SplitDots(key, i + 1, <<>>)
    ELSE SplitDots(key, i + 1, Append(cur, key[i]))

\* the loop of ConfigLoader.get, lines 97-103, from keys[n] on
RECURSIVE Descend(_, _, _, _)
Descend(value, keys, n, default) ==
    IF n > Len(keys) THEN value
    ELSE IF value.kind = "dict" /\ keys[n] \in DOMAIN value.items
         THEN Descend(value.items[keys[n]], keys, n + 1, default)
    ELSE default

\* ConfigLoader.get(key) on the config dict
get(cfg, key, default) == Descend(cfg, SplitDots(key, 1, <<>>), 1, default)

(***************************************************************************)
(* Bounds and inputs of the model                                          *)
(***************************************************************************)
\* number of edits the user makes
MaxEdits == 2
\* number of create_baseline runs
MaxCreates == 1
\* number of lines of the document that one flush of the file buffer writes
FlushLines == 24

Contents == { <<"x">>, <<"x","y">> }

\* the slots whose file the user rewrites, touches or chmods; in the other
\* slots (an ignored name, a pruned directory) a file only comes and goes
CondSlots == {fA, fC}

\* the algorithm names a command is given: the default and an unsupported one
Algorithms == { DEFAULT_ALGORITHM, <<"crc">> }

\* what the user writes into .fimignore
IgnoreTexts ==
    { << <<"s">> >>,
      << <<"#","a">>, <<" ","a"," ">> >> }

NoIgnoreFile == [exists |-> FALSE, lines |-> <<>>]
IgnoreFiles == {NoIgnoreFile} \cup { [exists |-> TRUE, lines |-> t] : t \in IgnoreTexts }

\* the patterns add_pattern is called with: a default one, one that
\* .fimignore may hold, a new one
AddArgs == { <<"e","n","v">>, <<"s">>, <<"*",".","t","m","p">> }

\* .fimignore for a handler used on its own: also one that repeats a line
\* and a default pattern
HandlerFiles ==
    IgnoreFiles \cup { [exists |-> TRUE, lines |-> << <<"s">>, <<"e","n","v">>, <<"s">> >>] }

\* the patterns and the paths should_ignore is tried on
MatchPatterns ==
    { <<"e","n","v">>, <<"*",".","l","o","g">>, <<"s">>, <<"?">>, <<"[","a","b","]">> }
MatchLists ==
    {<<>>} \cup { <<p>> : p \in MatchPatterns }
    \cup { <<p, q>> : p \in MatchPatterns, q \in MatchPatterns }
MatchPaths ==
    { <<"d","/","a">>, <<"d","/","q",".","l","o","g">>, <<"d","/","s","/","c","c">>,
      <<"d","d","/","x","e","n","v","x","/","k","k">>, <<"e","n","v","/","t","t">>,
      <<"/","w","w","/","d","d","/","c","c">>, <<"d","d","/">>, <<"k","k">> }

\* what config.json holds: text that is not JSON, a JSON list, and objects:
\* empty, with a top-level key, with a whole section, with one key of a
\* section, with a value in place of a section
ConfigDocs ==
    { Val("[]"),
      Dict(EmptyDict),
      Dict(K("default_algorithm") :> Val("md5")),
      Dict(K("display") :>
             Dict((K("separator_length") :> Val("60"))
               @@ (K("hash_display_length") :> Val("8"))
               @@ (K("verbose") :> Val("False")))),
      Dict((K("chunk_size") :> Val("4096"))
        @@ (K("logging") :> Dict(K("log_file") :> Val("fim.log")))),
      Dict(K("logging") :> Val("False")) }

ConfigFiles ==
    { NoConfigFile, [exists |-> TRUE, parses |-> FALSE, doc |-> Val("")] }
    \cup { [exists |-> TRUE, parses |-> TRUE, doc |-> d] : d \in ConfigDocs }

\* the keys that have a built-in default, in dot notation
ConfigKeys ==
    { <<k[1]>> : k \in DOMAIN default_config.items }
    \cup UNION { { <<k[1], ".", j[1]>> : j \in DOMAIN default_config.items[k].items } :
                 k \in DOMAIN default_config.items }

\* what the user writes into the baseline file: an unclosed object, '{}',
\* an object without metadata.file_count, one without metadata.algorithm
TamperTexts ==
    { << Line("{", <<>>, <<>>) >>,
      << Line("{", <<>>, <<>>), Line("}", <<>>, <<>>) >>,
      << Line("{", <<>>, <<>>), Line("{", K("metadata"), <<>>),
         Line("}", <<>>, <<>>), Line("{", K("files"), <<>>),
         Line("}", <<>>, <<>>), Line("}", <<>>, <<>>) >>,
      << Line("{", <<>>, <<>>), Line("{", K("metadata"), <<>>),
         Line("n", K("file_count"), <<"0">>),
         Line("}", <<>>, <<>>), Line("{", K("files"), <<>>),
         Line("}", <<>>, <<>>), Line("}", <<>>, <<>>) >> }

(***************************************************************************)
(* State                                                                   *)
(***************************************************************************)
VARIABLES
    fs,             \* the user's files of the tree, by slot
    ignfile,        \* .fimignore in the working directory
    blfile,         \* the baseline file
    blInside,       \* whether the baseline file lies in the scanned tree
    edits,          \* edits made so far
    creates,        \* create_baseline runs started so far
    pc,             \* "idle", or "writing" inside create_baseline's json.dump
    pending,        \* the create_baseline run in progress
    out,            \* the last command and how it ended
    ret,            \* the dict the last create_baseline / load_baseline returned
    scanned,        \* the last scan: its ignore patterns and its trace
    baseline_files, \* compare_with_baseline: baseline['files']
    current_files,  \* compare_with_baseline: the re-scan
    changes,        \* compare_with_baseline: the ChangeSet
    made,           \* the last completed create_baseline: the tree it saw
    handler,        \* an IgnoreHandler object: its patterns
    got,            \* the list get_patterns returned, in the caller's hands
    path_arg,       \* the path should_ignore was last asked about
    ignored,        \* what should_ignore answered: "yes", "no", "" before
    cfgfile,        \* config.json
    config,         \* a ConfigLoader object: its config dict
    looked          \* the last ConfigLoader.get: the key and the value

\* the objects of ignore_handler.py and config_loader.py used on their own
lib == << handler, got, path_arg, ignored, cfgfile, config, looked >>

vars == << fs, ignfile, blfile, blInside, edits, creates, pc, pending, out, ret,
           scanned, baseline_files, current_files, changes, made, lib >>

NoBaselineFile == [exists |-> FALSE, text |-> <<>>, mtime |-> 0]
NoPending == [baseline |-> EmptyDict, text |-> <<>>, pos |-> 0, prev |-> NoBaselineFile,
              directory_path |-> <<>>]
NoOut == [op |-> "none", err |-> "none"]
\* an IgnoreHandler object: the patterns it was constructed with, its
\* patterns now, and the last add_pattern call: its argument and the patterns
\* before it
NoHandler == [made |-> FALSE, initial |-> <<>>, patterns |-> <<>>,
              arg |-> <<>>, before |-> <<>>]
\* the list get_patterns returned: live when it is the handler's own list
\* object; once the caller has changed it, the handler's patterns before and
\* after that change
NoGot == [taken |-> FALSE, list |-> <<>>, live |-> FALSE, mutated |-> FALSE,
          owner_before |-> <<>>, owner_after |-> <<>>]
NoConfig == [loaded |-> FALSE, file |-> NoConfigFile, dict |-> Dict(EmptyDict)]
NotLooked == [key |-> <<>>, value |-> Val("")]
NoScan == [patterns |-> <<>>, directory_path |-> <<>>, algorithm |-> <<>>,
           tree |-> [s \in Slots |-> NoFile], trace |-> ScanStart]
NotMade == [valid |-> FALSE, fs |-> [s \in UserSlots |-> NoFile],
            ignfile |-> NoIgnoreFile, directory_path |-> <<>>, text |-> <<>>]

\* the tree a scan walks: the user's files and, when it lies in the tree,
\* the baseline file with the bytes of its text
Tree ==
    [s \in Slots |->
        IF s # fB THEN fs[s]
        ELSE IF blInside /\ blfile.exists
             THEN File(Flatten(blfile.text, 1), blfile.mtime, "ok")
             ELSE NoFile]

\* no command has run yet
Idle ==
    /\ edits = 0
    /\ creates = 0
    /\ pc = "idle"
    /\ pending = NoPending
    /\ out = NoOut
    /\ ret = EmptyDict
    /\ scanned = NoScan
    /\ changes = NoChanges
    /\ made = NotMade

\* no IgnoreHandler and no ConfigLoader has been constructed
NoLib ==
    /\ handler = NoHandler
    /\ got = NoGot
    /\ path_arg = <<>>
    /\ ignored = ""
    /\ cfgfile = NoConfigFile
    /\ config = NoConfig
    /\ looked = NotLooked

Fresh ==
    /\ Idle
    /\ baseline_files = EmptyDict
    /\ current_files = EmptyDict

\* a tree with two files and a file in an ignored directory; no baseline yet;
\* the baseline file will be written inside or outside the tree
Init ==
    /\ fs = [s \in UserSlots |-> IF s \in {fL, fC} THEN NoFile
                                 ELSE File(<<"x">>, 1, "ok")]
    /\ ignfile = NoIgnoreFile
    /\ blfile = NoBaselineFile
    /\ blInside \in BOOLEAN
    /\ Fresh
    /\ NoLib

\* an edit forgets the outcome of the last command
Forget ==
    /\ out' = NoOut
    /\ ret' = EmptyDict
    /\ scanned' = NoScan
    /\ baseline_files' = EmptyDict
    /\ current_files' = EmptyDict
    /\ changes' = NoChanges

Edit ==
    /\ pc = "idle"
    /\ edits < MaxEdits
    /\ edits' = edits + 1
    /\ UNCHANGED << blInside, creates, pc, pending, lib >>
    /\ Forget

(***************************************************************************)
(* The user                                                                *)
(***************************************************************************)
\* write a file: create it, or replace its content
UserWrite(s, content) ==
    /\ Edit
    /\ ~fs[s].exists \/ fs[s].content # content
    /\ s \in CondSlots \/ (content = <<"x">> /\ ~fs[s].exists)
    /\ fs' = [fs EXCEPT ![s] = File(content, fs[s].mtime + 1,
                                    IF fs[s].exists THEN fs[s].cond ELSE "ok")]
    /\ UNCHANGED << ignfile, blfile, made >>

\* touch: a new modification time, the same bytes
UserTouch(s) ==
    /\ Edit
    /\ s \in CondSlots
    /\ fs[s].exists
    /\ fs' = [fs EXCEPT ![s].mtime = @ + 1]
    /\ UNCHANGED << ignfile, blfile, made >>

UserDelete(s) ==
    /\ Edit
    /\ fs[s].exists
    /\ fs' = [fs EXCEPT ![s] = [NoFile EXCEPT !.mtime = fs[s].mtime]]
    /\ UNCHANGED << ignfile, blfile, made >>

\* chmod a file unreadable, or readable again
UserSetCond(s, cond) ==
    /\ Edit
    /\ s \in CondSlots
    /\ fs[s].exists
    /\ fs[s].cond # cond
    /\ fs' = [fs EXCEPT ![s].cond = cond]
    /\ UNCHANGED << ignfile, blfile, made >>

\* write .fimignore in the working directory
UserWriteIgnore(lines) ==
    /\ Edit
    /\ ~ignfile.exists \/ ignfile.lines # lines
    /\ ignfile' = [exists |-> TRUE, lines |-> lines]
    /\ UNCHANGED << fs, blfile, made >>

UserDeleteIgnore ==
    /\ Edit
    /\ ignfile.exists
    /\ ignfile' = NoIgnoreFile
    /\ UNCHANGED << fs, blfile, made >>

UserWriteBaseline(text) ==
    /\ Edit
    /\ blfile.text # text \/ ~blfile.exists
    /\ blfile' = [exists |-> TRUE, text |-> text, mtime |-> blfile.mtime + 1]
    /\ made' = [made EXCEPT !.valid = FALSE]
    /\ UNCHANGED << fs, ignfile >>

UserDeleteBaseline ==
    /\ Edit
    /\ blfile.exists
    /\ blfile' = [NoBaselineFile EXCEPT !.mtime = blfile.mtime]
    /\ made' = [made EXCEPT !.valid = FALSE]
    /\ UNCHANGED << fs, ignfile >>

(***************************************************************************)
(* create_baseline                                                         *)
(***************************************************************************)
\* lines 25-51: scan, build the dict, open the file for writing (truncate)
CreateBegin(directory_path, algorithm) ==
    /\ pc = "idle"
    /\ creates < MaxCreates
    /\ creates' = creates + 1
    /\ \E patterns \in {IgnoreHandler(ignfile)} :
       \E sc \in {scan_directory(Tree, directory_path, algorithm, patterns)} :
           /\ scanned' = [patterns |-> patterns, directory_path |-> directory_path,
                          algorithm |-> algorithm, tree |-> Tree, trace |-> sc]
           /\ IF sc.raised # "none"
              THEN /\ out' = [op |-> "create", err |-> sc.raised]
                   /\ pending' = [NoPending EXCEPT !.prev = blfile]
                   /\ UNCHANGED << pc, blfile, made >>
              ELSE \E baseline \in {Baseline(isoformat(creates'), directory_path,
                                             algorithm, sc.results, patterns)} :
                   /\ pc' = "writing"
                   /\ pending' = [baseline |-> baseline, text |-> json_dump(baseline),
                                  pos |-> 0, prev |-> blfile,
                                  directory_path |-> directory_path]
                   /\ blfile' = [exists |-> TRUE, text |-> <<>>,
                                 mtime |-> blfile.mtime + 1]
                   /\ made' = [made EXCEPT !.valid = FALSE]
                   /\ out' = NoOut
    /\ ret' = EmptyDict
    /\ baseline_files' = EmptyDict
    /\ current_files' = EmptyDict
    /\ changes' = NoChanges
    /\ UNCHANGED << fs, ignfile, blInside, edits, lib >>

\* line 52: json.dump writes the next part of the document; after the last
\* part the file is closed and create_baseline returns the dict
CreateWrite ==
    /\ pc = "writing"
    /\ LET pos == IF pending.pos + FlushLines < Len(pending.text)
                  THEN pending.pos + FlushLines ELSE Len(pending.text)
       IN  /\ blfile' = [blfile EXCEPT !.text = SubSeq(pending.text, 1, pos)]
           /\ IF pos < Len(pending.text)
              THEN /\ pending' = [pending EXCEPT !.pos = pos]
                   /\ UNCHANGED << pc, out, ret, made >>
              ELSE /\ pc' = "idle"
                   /\ pending' = [pending EXCEPT !.pos = pos]
                   /\ out' = [op |-> "create", err |-> "none"]
                   /\ ret' = pending.baseline
                   /\ made' = [valid |-> TRUE, fs |-> fs, ignfile |-> ignfile,
                               directory_path |-> pending.directory_path,
                               text |-> pending.text]
    /\ UNCHANGED << fs, ignfile, blInside, edits, creates, scanned,
                    baseline_files, current_files, changes, lib >>

\* the write fails (OSError, re-raised at lines 60-62) or the process is
\* interrupted (KeyboardInterrupt): the file keeps what was written so far
CreateAbort(err) ==
    /\ pc = "writing"
    /\ pc' = "idle"
    /\ out' = [op |-> "create", err |-> err]
    /\ UNCHANGED << fs, ignfile, blfile, blInside, edits, creates, pending, ret,
                    scanned, baseline_files, current_files, changes, made, lib >>

(***************************************************************************)
(* load_baseline (as display_baseline calls it) and compare_with_baseline  *)
(***************************************************************************)
Load ==
    /\ pc = "idle"
    /\ \E l \in {load_baseline(blfile)} :
       /\ out' = [op |-> "load", err |-> l.err]
       /\ ret' = l.val
    /\ scanned' = NoScan
    /\ baseline_files' = EmptyDict
    /\ current_files' = EmptyDict
    /\ changes' = NoChanges
    /\ UNCHANGED << fs, ignfile, blfile, blInside, edits, creates, pc, pending, made,
                    lib >>

Check(directory_path) ==
    /\ pc = "idle"
    /\ \E c \in {compare_with_baseline(Tree, ignfile, blfile, directory_path)} :
       /\ out' = [op |-> "check", err |-> c.err]
       /\ scanned' = IF c.patterns = <<>> THEN NoScan
                     ELSE [patterns |-> c.patterns, directory_path |-> directory_path,
                           algorithm |-> c.algorithm, tree |-> Tree, trace |-> c.scan]
       /\ IF c.err = "none"
          THEN /\ baseline_files' = c.bfiles
               /\ current_files' = c.scan.results
               /\ changes' = Classify(c.bfiles, c.scan.results)
          ELSE /\ baseline_files' = EmptyDict
               /\ current_files' = EmptyDict
               /\ changes' = NoChanges
    /\ ret' = EmptyDict
    /\ UNCHANGED << fs, ignfile, blfile, blInside, edits, creates, pc, pending, made,
                    lib >>

(***************************************************************************)
(* scan_directory and the classification of compare_with_baseline, run on  *)
(* their own                                                               *)
(***************************************************************************)
Scan(directory_path, algorithm) ==
    /\ pc = "idle"
    /\ out.op = "none"
    /\ \E patterns \in {IgnoreHandler(ignfile)} :
       \E sc \in {scan_directory(Tree, directory_path, algorithm, patterns)} :
           /\ scanned' = [patterns |-> patterns, directory_path |-> directory_path,
                          algorithm |-> algorithm, tree |-> Tree, trace |-> sc]
           /\ out' = [op |-> "scan", err |-> sc.raised]
    /\ UNCHANGED << fs, ignfile, blfile, blInside, edits, creates, pc, pending, ret,
                    baseline_files, current_files, changes, made, lib >>

Diff ==
    /\ pc = "idle"
    /\ out.op = "none"
    /\ changes' = Classify(baseline_files, current_files)
    /\ out' = [op |-> "diff", err |-> "none"]
    /\ UNCHANGED << fs, ignfile, blfile, blInside, edits, creates, pc, pending, ret,
                    scanned, baseline_files, current_files, made, lib >>

(***************************************************************************)
(* IgnoreHandler used on its own                                           *)
(***************************************************************************)
NewHandler ==
    /\ handler' = [made |-> TRUE, initial |-> IgnoreHandler(ignfile),
                   patterns |-> IgnoreHandler(ignfile), arg |-> <<>>,
                   before |-> <<>>]
    /\ got' = NoGot
    /\ UNCHANGED << fs, ignfile, blfile, blInside, edits, creates, pc, pending, out,
                    ret, scanned, baseline_files, current_files, changes, made,
                    path_arg, ignored, cfgfile, config, looked >>

AddPattern(pattern) ==
    /\ handler.made
    /\ handler' = [handler EXCEPT !.patterns = add_pattern(handler.patterns, pattern),
                                  !.arg = pattern,
                                  !.before = handler.patterns]
    /\ got' = IF got.live THEN [got EXCEPT !.list = handler'.patterns] ELSE got
    /\ UNCHANGED << fs, ignfile, blfile, blInside, edits, creates, pc, pending, out,
                    ret, scanned, baseline_files, current_files, changes, made,
                    path_arg, ignored, cfgfile, config, looked >>

\* line 94: the caller gets self.patterns.copy(), a list object of its own
GetPatterns ==
    /\ handler.made
    /\ got' = [NoGot EXCEPT !.taken = TRUE, !.list = get_patterns(handler.patterns)]
    /\ UNCHANGED << fs, ignfile, blfile, blInside, edits, creates, pc, pending, out,
                    ret, scanned, baseline_files, current_files, changes, made,
                    handler, path_arg, ignored, cfgfile, config, looked >>

\* the caller changes the list it got: it removes the first element
MutateGot ==
    /\ got.taken
    /\ ~got.mutated
    /\ got.list # <<>>
    /\ handler' = IF got.live THEN [handler EXCEPT !.patterns = Tail(got.list)]
                  ELSE handler
    /\ got' = [got EXCEPT !.list = Tail(got.list), !.mutated = TRUE,
                          !.owner_before = handler.patterns,
                          !.owner_after = handler'.patterns]
    /\ UNCHANGED << fs, ignfile, blfile, blInside, edits, creates, pc, pending, out,
                    ret, scanned, baseline_files, current_files, changes, made,
                    path_arg, ignored, cfgfile, config, looked >>

ShouldIgnore ==
    /\ handler.made
    /\ path_arg # <<>>
    /\ ignored = ""
    /\ ignored' = IF should_ignore(handler.patterns, path_arg) THEN "yes" ELSE "no"
    /\ UNCHANGED << fs, ignfile, blfile, blInside, edits, creates, pc, pending, out,
                    ret, scanned, baseline_files, current_files, changes, made,
                    handler, got, path_arg, cfgfile, config, looked >>

(***************************************************************************)
(* ConfigLoader                                                            *)
(***************************************************************************)
program == << fs, ignfile, blfile, blInside, edits, creates, pc, pending, out, ret,
              scanned, baseline_files, current_files, changes, made >>

UserWriteConfig(file) ==
    /\ cfgfile # file
    /\ cfgfile' = file
    /\ UNCHANGED << program, handler, got, path_arg, ignored, config, looked >>

\* ConfigLoader(): __init__ runs _load_config
ConfigLoader ==
    /\ config' = [loaded |-> TRUE, file |-> cfgfile, dict |-> load_config(cfgfile)]
    /\ looked' = NotLooked
    /\ UNCHANGED << program, handler, got, path_arg, ignored, cfgfile >>

Get(key) ==
    /\ config.loaded
    /\ looked' = [key |-> key, value |-> get(config.dict, key, None)]
    /\ UNCHANGED << program, handler, got, path_arg, ignored, cfgfile, config >>

(***************************************************************************)
(* Specifications                                                          *)
(***************************************************************************)
\* create, edit the tree, check
Next ==
    \/ \E s \in UserSlots, content \in Contents : UserWrite(s, content)
    \/ \E s \in UserSlots : UserTouch(s)
    \/ \E s \in UserSlots : UserDelete(s)
    \/ \E s \in UserSlots, cond \in {"ok", "denied"} : UserSetCond(s, cond)
    \/ \E d \in DirArgs, algorithm \in Algorithms : CreateBegin(d, algorithm)
    \/ CreateWrite
    \/ \E d \in DirArgs : Check(d)

Spec == Init /\ [][Next]_vars

\* the baseline file: written by create_baseline in several flushes, with
\* write failures and interruptions, edited by hand, read by load_baseline
StoreTrees ==
    { [s \in UserSlots |-> IF s = fA THEN a ELSE IF s = fC THEN c ELSE NoFile] :
        a \in {NoFile, File(<<"x">>, 1, "ok")},
        c \in {NoFile, File(<<"x","y">>, 2, "ok")} }

InitStore ==
    /\ fs \in StoreTrees
    /\ ignfile \in IgnoreFiles
    /\ blfile = NoBaselineFile
    /\ blInside \in BOOLEAN
    /\ Fresh
    /\ NoLib

NextStore ==
    \/ \E text \in TamperTexts : UserWriteBaseline(text)
    \/ UserDeleteBaseline
    \/ \E d \in DirArgs, algorithm \in Algorithms : CreateBegin(d, algorithm)
    \/ CreateWrite
    \/ \E err \in {"OSError", "KeyboardInterrupt"} : CreateAbort(err)
    \/ Load

SpecStore == InitStore /\ [][NextStore]_vars

\* .fimignore edited between create_baseline and compare_with_baseline
InitIgnore ==
    /\ fs \in { [s \in UserSlots |-> IF s = fA THEN File(<<"x">>, 1, "ok")
                                    ELSE IF s = fC THEN c
                                    ELSE IF s = fL THEN l ELSE NoFile] :
                    c \in {NoFile, File(<<"x">>, 1, "ok")},
                    l \in {NoFile, File(<<"x">>, 1, "ok")} }
    /\ ignfile \in IgnoreFiles
    /\ blfile = NoBaselineFile
    /\ blInside = FALSE
    /\ Fresh
    /\ NoLib

NextIgnore ==
    \/ \E lines \in IgnoreTexts : UserWriteIgnore(lines)
    \/ UserDeleteIgnore
    \/ \E d \in DirArgs : CreateBegin(d, DEFAULT_ALGORITHM)
    \/ CreateWrite
    \/ \E d \in DirArgs : Check(d)

SpecIgnore == InitIgnore /\ [][NextIgnore]_vars

\* no file, no command: the state of the program while a library object is
\* used on its own
Unused ==
    /\ fs = [s \in UserSlots |-> NoFile]
    /\ ignfile = NoIgnoreFile
    /\ blfile = NoBaselineFile
    /\ blInside = FALSE
    /\ Fresh

\* an IgnoreHandler constructed, given patterns, asked for its patterns
InitHandler ==
    /\ fs = [s \in UserSlots |-> NoFile]
    /\ ignfile \in HandlerFiles
    /\ blfile = NoBaselineFile
    /\ blInside = FALSE
    /\ Fresh
    /\ NoLib

NextHandler ==
    \/ NewHandler
    \/ \E pattern \in AddArgs : AddPattern(pattern)
    \/ GetPatterns
    \/ MutateGot

SpecHandler == InitHandler /\ [][NextHandler]_vars

\* should_ignore on every list of patterns and every path of bounded sets
InitMatch ==
    /\ Unused
    /\ handler \in { [made |-> TRUE, initial |-> l, patterns |-> l, arg |-> <<>>,
                       before |-> <<>>] : l \in MatchLists }
    /\ got = NoGot
    /\ path_arg \in MatchPaths
    /\ ignored = ""
    /\ cfgfile = NoConfigFile
    /\ config = NoConfig
    /\ looked = NotLooked

NextMatch == ShouldIgnore

SpecMatch == InitMatch /\ [][NextMatch]_vars

\* config.json written, loaded, and asked for keys
InitConfig ==
    /\ Unused
    /\ handler = NoHandler
    /\ got = NoGot
    /\ path_arg = <<>>
    /\ ignored = ""
    /\ cfgfile \in ConfigFiles
    /\ config = NoConfig
    /\ looked = NotLooked

NextConfig ==
    \/ \E file \in ConfigFiles : UserWriteConfig(file)
    \/ ConfigLoader
    \/ \E key \in ConfigKeys : Get(key)

SpecConfig == InitConfig /\ [][NextConfig]_vars

\* scan_directory on every tree of a bounded set
ScanFiles1 == {NoFile} \cup { File(<<"x">>, 1, c) : c \in Conds }
ScanFiles2 == {NoFile, File(<<"x">>, 1, "ok")}
ScanTrees ==
    { [s \in UserSlots |-> IF s = fA THEN a ELSE IF s = fC THEN c
                           ELSE IF s = fL THEN l ELSE k] :
        a \in ScanFiles1, c \in ScanFiles1, l \in ScanFiles2, k \in ScanFiles2 }

InitScan ==
    /\ fs \in ScanTrees
    /\ ignfile \in IgnoreFiles
    /\ blfile = NoBaselineFile
    /\ blInside = FALSE
    /\ Fresh
    /\ NoLib

NextScan == \E d \in DirArgs, algorithm \in Algorithms : Scan(d, algorithm)

SpecScan == InitScan /\ [][NextScan]_vars

\* scan_directory on roots whose own path is ignored, and on one that is not
InitRoot ==
    /\ fs \in ScanTrees
    /\ ignfile = NoIgnoreFile
    /\ blfile = NoBaselineFile
    /\ blInside = FALSE
    /\ Fresh
    /\ NoLib

NextRoot ==
    \E d \in IgnoredRoots \cup DirArgs, algorithm \in Algorithms : Scan(d, algorithm)

SpecRoot == InitRoot /\ [][NextRoot]_vars

\* create_baseline and compare_with_baseline given the same directory under
\* several spellings, the tree left alone in between
InitSpell ==
    /\ fs \in { [s \in UserSlots |-> IF s = fA THEN a ELSE IF s = fC THEN c
                                    ELSE IF s = fK THEN k ELSE NoFile] :
                    a \in ScanFiles2, c \in ScanFiles2, k \in ScanFiles2 }
    /\ ignfile = NoIgnoreFile
    /\ blfile = NoBaselineFile
    /\ blInside = FALSE
    /\ Fresh
    /\ NoLib

NextSpell ==
    \/ \E d \in Spellings : CreateBegin(d, DEFAULT_ALGORITHM)
    \/ CreateWrite
    \/ \E d \in Spellings : Check(d)

SpecSpell == InitSpell /\ [][NextSpell]_vars

\* the classification on every pair of dicts of a bounded set
DiffPaths == { PathOf(TreeArg, fA), PathOf(TreeArg, fB), PathOf(TreeArg, fC) }
DiffRecords ==
    { FileRecord(hexdigest(DEFAULT_ALGORITHM, c), n, isoformat(n), DEFAULT_ALGORITHM) :
        c \in Contents, n \in 1 .. 2 }
DiffDicts ==
    UNION { [P -> DiffRecords] : P \in SUBSET DiffPaths }

InitDiff ==
    /\ fs = [s \in UserSlots |-> NoFile]
    /\ ignfile = NoIgnoreFile
    /\ blfile = NoBaselineFile
    /\ blInside = FALSE
    /\ Idle
    /\ baseline_files \in DiffDicts
    /\ current_files \in DiffDicts
    /\ NoLib

NextDiff == Diff

SpecDiff == InitDiff /\ [][NextDiff]_vars

(***************************************************************************)
(* Properties                                                              *)
(***************************************************************************)
PathsOf(entries) == [n \in 1 .. Len(entries) |-> entries[n].path]

ModifiedPaths == PathsOf(changes.modified)
AddedPaths    == PathsOf(changes.added)
DeletedPaths  == PathsOf(changes.deleted)

\* the paths of the four buckets, one after the other
BucketPaths == ModifiedPaths \o AddedPaths \o DeletedPaths \o changes.unchanged

Occurrences(q, e) == Cardinality({ n \in 1 .. Len(q) : q[n] = e })

\* a classification has been computed
Classified == out.op \in {"check", "diff"} /\ out.err = "none"

\* C1: the ChangeSet partitions the union of the baseline's paths and the
\* current scan's paths: every path of the union is in exactly one bucket,
\* exactly once, and the buckets hold no other path.
C1_Partition ==
    Classified =>
        /\ \A p \in DOMAIN baseline_files \cup DOMAIN current_files :
               Occurrences(BucketPaths, p) = 1
        /\ Range(BucketPaths) \subseteq DOMAIN baseline_files \cup DOMAIN current_files

C1_Witness ==
    /\ out.op = "diff"
    /\ Len(changes.modified) = 1
    /\ Len(changes.added) = 1
    /\ Len(changes.deleted) = 1

\* the path under which the last scan reports the file of slot s
SlotPath(s) == PathOf(scanned.directory_path, s)

\* the check ran on the baseline that the last create_baseline wrote, with the
\* directory argument of the create
CheckedMade ==
    /\ out.op = "check"
    /\ out.err = "none"
    /\ made.valid
    /\ scanned.directory_path = made.directory_path

\* path p is in the given bucket, once, and in no other bucket
InOnly(bucket, p) ==
    Occurrences(PathsOf(bucket), p) = 1 /\ Occurrences(BucketPaths, p) = 1

Entry(bucket, p) == bucket[CHOOSE n \in 1 .. Len(bucket) : bucket[n].path = p]

\* C2: create_baseline and then compare_with_baseline, with no edit by the
\* user in between, give a ChangeSet with empty modified, added and deleted,
\* whose unchanged holds every path of the current scan, wherever the
\* baseline file is written.
C2_Idempotent ==
    (CheckedMade /\ fs = made.fs /\ ignfile = made.ignfile) =>
        /\ changes.modified = <<>>
        /\ changes.added = <<>>
        /\ changes.deleted = <<>>
        /\ Range(changes.unchanged) = DOMAIN current_files

\* since the create, the content of the file of slot f was changed and nothing
\* else was
OnlyContentChanged(f) ==
    /\ made.fs[f].exists
    /\ fs[f].exists
    /\ fs[f].content # made.fs[f].content
    /\ fs[f].cond = made.fs[f].cond
    /\ \A g \in UserSlots \ {f} : fs[g] = made.fs[g]
    /\ ignfile = made.ignfile

\* C3: when, after the create, the content of exactly one baselined file f
\* was changed, f is the one modified entry, with the baseline's hash, size
\* and modification time as old_* and the current ones as new_*; every other
\* baselined path is unchanged; added and deleted are empty.
C3_OneModified ==
    CheckedMade =>
        \A f \in UserSlots :
            (OnlyContentChanged(f) /\ SlotPath(f) \in DOMAIN baseline_files) =>
                /\ changes.modified =
                     << [path |-> SlotPath(f),
                         old_hash |-> hexdigest(scanned.algorithm, made.fs[f].content),
                         new_hash |-> hexdigest(scanned.algorithm, fs[f].content),
                         old_size |-> Len(made.fs[f].content),
                         new_size |-> Len(fs[f].content),
                         old_modified |-> isoformat(made.fs[f].mtime),
                         new_modified |-> isoformat(fs[f].mtime)] >>
                /\ Range(changes.unchanged) = DOMAIN baseline_files \ {SlotPath(f)}
                /\ changes.added = <<>>
                /\ changes.deleted = <<>>

\* a baselined file that no longer exists is in deleted only, with the
\* baseline's hash and size
DeletedReported(s) ==
    (SlotPath(s) \in DOMAIN baseline_files /\ ~scanned.tree[s].exists) =>
        /\ InOnly(changes.deleted, SlotPath(s))
        /\ Entry(changes.deleted, SlotPath(s)) =
             [path |-> SlotPath(s),
              hash |-> baseline_files[SlotPath(s)][K("hash")],
              size |-> baseline_files[SlotPath(s)][K("size")]]

\* the file of slot s is in added only, with its current hash, size and
\* modification time
AddedReported(s) ==
    /\ InOnly(changes.added, SlotPath(s))
    /\ Entry(changes.added, SlotPath(s)) =
         [path |-> SlotPath(s),
          hash |-> hexdigest(scanned.algorithm, scanned.tree[s].content),
          size |-> Len(scanned.tree[s].content),
          modified |-> isoformat(scanned.tree[s].mtime)]

\* the file exists at check time, is not ignored and is not in the baseline
NewFile(s) ==
    /\ scanned.tree[s].exists
    /\ SlotPath(s) \notin DOMAIN baseline_files
    /\ ~should_ignore(scanned.patterns, SlotPath(s))

\* hashing and stat-ing the file succeed
Readable(file, algorithm) ==
    calculate_file_hash(file, algorithm).err = "none" /\ os_stat(file).err = "none"

\* C4 as claimed: a baselined file that no longer exists is in deleted only;
\* every non-ignored file that exists at check time and is not in the baseline
\* is in added only.
C4_AddedDeleted ==
    CheckedMade =>
        \A s \in Slots :
            /\ DeletedReported(s)
            /\ NewFile(s) => AddedReported(s)

\* C4 as amended: a baselined file that no longer exists is in deleted only;
\* every non-ignored file that exists at check time, is not in the baseline
\* and is hashed and stat-ed without error by the re-scan is in added only.
C4_AddedDeletedReadable ==
    CheckedMade =>
        \A s \in Slots :
            /\ DeletedReported(s)
            /\ (NewFile(s) /\ Readable(scanned.tree[s], scanned.algorithm))
                   => AddedReported(s)

\* a file was deleted, one was added, and an ignored file exists
C4_Witness ==
    /\ CheckedMade
    /\ ~blInside
    /\ Len(changes.deleted) = 1
    /\ Len(changes.added) = 1
    /\ \E s \in Slots : scanned.tree[s].exists
                        /\ SlotPath(s) \notin Range(BucketPaths)

\* a scan has run
Scanned == out.op \in {"scan", "create", "check"} /\ scanned # NoScan

\* the proper prefixes of the slots: the directories below the root
DirRels == UNION { { SubSeq(s, 1, n) : n \in 1 .. (Len(s) - 1) } : s \in Slots }

\* the paths on which the last scan called should_ignore,
\* calculate_file_hash or os.stat, and the keys of its result
Touched ==
    scanned.trace.tested \cup scanned.trace.hashed \cup scanned.trace.stated
    \cup DOMAIN scanned.trace.results

\* C6: a subdirectory whose path satisfies should_ignore is not descended
\* into: it is not listed, no file at any depth below it is tested, hashed or
\* stat-ed, and no key of the result lies under it.
C6_Pruned ==
    Scanned =>
        \A r \in DirRels :
            should_ignore(scanned.patterns, SlotPath(r)) =>
                /\ SlotPath(r) \notin scanned.trace.visited
                /\ \A p \in Touched \cup scanned.trace.visited :
                       ~IsPrefix(SlotPath(r) \o <<sep>>, p)

\* a file lies two levels below an ignored directory, and the scan returned
\* other files
C6_Witness ==
    /\ out.op = "scan"
    /\ out.err = "none"
    /\ scanned.tree[fK].exists
    /\ should_ignore(scanned.patterns, SlotPath(<<fK[1]>>))
    /\ DOMAIN scanned.trace.results # {}

\* hashing or stat-ing the file of slot s fails with an OSError
Unreadable(s) ==
    \/ calculate_file_hash(scanned.tree[s], scanned.algorithm).err \in OSErrors
    \/ /\ calculate_file_hash(scanned.tree[s], scanned.algorithm).err = "none"
       /\ os_stat(scanned.tree[s]).err \in OSErrors

NotIgnored(s) ==
    scanned.tree[s].exists /\ ~should_ignore(scanned.patterns, SlotPath(s))

\* C7: a file whose hashing or stat-ing fails with a permission or OS error is
\* left out of the result and counted as skipped, and the scan goes on: no
\* such failure makes scan_directory raise, and when it returns, the result
\* holds exactly the non-ignored files that could be read.
C7_Isolation ==
    Scanned =>
        /\ \A s \in Slots :
               (NotIgnored(s) /\ Unreadable(s) /\ SlotPath(s) \in scanned.trace.hashed)
                   => /\ SlotPath(s) \in scanned.trace.failed
                      /\ SlotPath(s) \notin DOMAIN scanned.trace.results
        /\ (\A s \in Slots : NotIgnored(s) =>
                \/ Unreadable(s)
                \/ Readable(scanned.tree[s], scanned.algorithm))
               => scanned.trace.raised = "none"
        /\ scanned.trace.raised = "none" =>
               /\ DOMAIN scanned.trace.results =
                      { SlotPath(s) : s \in { t \in Slots : NotIgnored(t) /\ ~Unreadable(t) } }
               /\ scanned.trace.failed =
                      { SlotPath(s) : s \in { t \in Slots : NotIgnored(t) /\ Unreadable(t) } }
               /\ scanned.trace.skipped_count =
                      Cardinality(scanned.trace.failed)
                      + Cardinality(scanned.trace.tested \ scanned.trace.hashed)

\* the first file of the walk is unreadable and a later one is in the result
C7_Witness ==
    /\ out.op = "scan"
    /\ out.err = "none"
    /\ scanned.tree[fA].cond = "denied"
    /\ SlotPath(fA) \in scanned.trace.failed
    /\ SlotPath(fC) \in DOMAIN scanned.trace.results

\* C5: a path of both the baseline and the current scan is modified if and
\* only if the two hashes differ; with equal hashes it is unchanged and in no
\* other bucket, whatever the sizes and the modification times are.
C5_HashOnly ==
    Classified =>
        \A p \in DOMAIN baseline_files \cap DOMAIN current_files :
            /\ p \in Range(ModifiedPaths)
                   <=> baseline_files[p][K("hash")] # current_files[p][K("hash")]
            /\ baseline_files[p][K("hash")] = current_files[p][K("hash")]
                   => /\ p \in Range(changes.unchanged)
                      /\ p \notin Range(AddedPaths) \cup Range(DeletedPaths)

C5_Witness ==
    /\ out.op = "diff"
    /\ \E p \in DOMAIN baseline_files \cap DOMAIN current_files :
          /\ baseline_files[p][K("hash")] = current_files[p][K("hash")]
          /\ baseline_files[p][K("size")] # current_files[p][K("size")]
          /\ baseline_files[p][K("modified")] # current_files[p][K("modified")]
          /\ p \in Range(changes.unchanged)

\* C8: load_baseline of the file that create_baseline wrote returns the dict
\* create_baseline built: the metadata (created, directory, algorithm,
\* file_count, ignore_patterns in order) and every file record are equal, and
\* metadata.file_count is the number of entries of files.
C8_RoundTrip ==
    (out.op = "create" /\ out.err = "none") =>
        /\ load_baseline(blfile) = [err |-> "none", val |-> ret]
        /\ ret[K("metadata")][K("file_count")] = Cardinality(DOMAIN ret[K("files")])
        /\ ret[K("metadata")][K("ignore_patterns")] = scanned.patterns
        /\ ret[K("files")] = scanned.trace.results

\* a baseline of two files, with patterns of .fimignore after the default
\* ones, has been written
C8_Witness ==
    /\ out.op = "create"
    /\ out.err = "none"
    /\ Cardinality(DOMAIN ret[K("files")]) = 2
    /\ Len(ret[K("metadata")][K("ignore_patterns")]) > Len(DEFAULT_IGNORE_PATTERNS)
    /\ load_baseline(blfile).val = ret

\* the file holds a JSON document
WellFormed == blfile.exists /\ json_load(blfile.text).ok

\* the document has the Baseline shape as far as load_baseline reads it
BaselineShape ==
    /\ WellFormed
    /\ Has(json_load(blfile.text).val, "metadata")
    /\ Has(json_load(blfile.text).val[K("metadata")], "file_count")

\* C9: load_baseline raises FileNotFoundError when the file is absent, and
\* ValueError when the content is not a Baseline: malformed JSON, and
\* well-formed JSON without 'metadata' or without 'file_count'; in those
\* cases it returns no value and raises no other error.
C9_TypedErrors ==
    out.op = "load" =>
        /\ ~blfile.exists => out.err = "FileNotFoundError"
        /\ (blfile.exists /\ ~BaselineShape) => out.err = "ValueError"

\* C10: during and after create_baseline, whether it returns, fails or is
\* interrupted, the baseline file holds what it held before the call or the
\* whole new document.
C10_Atomic ==
    (pc = "writing" \/ out.op = "create") =>
        \/ blfile = pending.prev
        \/ /\ blfile.exists
           /\ pending.text # <<>>
           /\ blfile.text = pending.text

\* the patterns that the baseline file records
Recorded == load_baseline(blfile).val[K("metadata")][K("ignore_patterns")]

\* C11: the patterns of the re-scan of compare_with_baseline are the patterns
\* that the baseline records in metadata.ignore_patterns, whatever .fimignore
\* holds at check time, so that every path is ignored at check time exactly
\* when it was at creation.
C11_SamePatterns ==
    (out.op = "check" /\ out.err = "none") =>
        /\ Range(scanned.patterns) = Range(Recorded)
        /\ \A s \in Slots :
               should_ignore(scanned.patterns, SlotPath(s))
                   = should_ignore(Recorded, SlotPath(s))

\* the file the config was loaded from defines the key: it holds a JSON
\* object in which the key resolves
Defines(file, key) ==
    /\ file.exists
    /\ file.parses
    /\ get(file.doc, key, Val("undefined")) # Val("undefined")

\* C12: for every key with a built-in default, ConfigLoader.get returns the
\* value of the config file when the file defines the key, and the built-in
\* default otherwise: with no file, with a malformed file, and with a file
\* that defines only some keys, also of a nested section.
C12_Fallback ==
    (config.loaded /\ looked.key \in ConfigKeys) =>
        looked.value =
            IF Defines(config.file, looked.key)
            THEN get(config.file.doc, looked.key, None)
            ELSE get(default_config, looked.key, None)

\* C13: add_pattern(p) leaves the patterns unchanged when p is among them and
\* appends p at the end otherwise; so every string occurs at most once more
\* than in the patterns the handler started with, those keep their order, and
\* changing the list that get_patterns returned does not change the handler's
\* patterns.
C13_AddIdempotent ==
    handler.made =>
        /\ handler.arg # <<>> =>
               handler.patterns =
                   IF handler.arg \in Range(handler.before)
                   THEN handler.before
                   ELSE Append(handler.before, handler.arg)
        /\ \A p \in AddArgs \cup Range(handler.patterns) :
               Occurrences(handler.patterns, p) <= Occurrences(handler.initial, p) + 1
        /\ IsPrefix(handler.initial, handler.patterns)
        /\ got.taken => ~got.live
        /\ got.mutated => got.owner_after = got.owner_before

\* a pattern that .fimignore already gave twice has been added again, after
\* a new one, and the caller has changed the list it got
C13_Witness ==
    /\ handler.made
    /\ handler.arg = <<"s">>
    /\ Occurrences(handler.initial, <<"s">>) = 2
    /\ handler.patterns = handler.before
    /\ Len(handler.patterns) = Len(handler.initial) + 1
    /\ got.mutated
    /\ got.list # handler.patterns

\* the components of a path, split on the separator
Components(path) == Range(split(path))

\* the last component of a path
FinalComponent(path) == split(path)[Len(split(path))]

\* pattern p matches the path in one of the three ways
MatchesBy(p, path) ==
    \/ fnmatch(FinalComponent(path), p)
    \/ fnmatch(path, <<"*">> \o p \o <<"*">>)
    \/ \E c \in Components(path) : fnmatch(c, p)

Reversed(q) == [n \in 1 .. Len(q) |-> q[Len(q) + 1 - n]]

\* C14: should_ignore(path) is true exactly when some pattern matches the
\* final component of the path, or matches the whole path when wrapped in
\* '*', or matches a single component of the path; the order of the patterns
\* does not matter.
C14_Matching ==
    ignored # "" =>
        /\ (ignored = "yes") <=>
               (\E p \in Range(handler.patterns) : MatchesBy(p, path_arg))
        /\ should_ignore(Reversed(handler.patterns), path_arg) = (ignored = "yes")

\* a path ignored only because a pattern occurs inside one of its
\* components: no pattern matches its final component or any component
C14_Witness ==
    /\ ignored = "yes"
    /\ handler.patterns # <<>>
    /\ \A p \in Range(handler.patterns) :
           /\ ~fnmatch(FinalComponent(path_arg), p)
           /\ \A c \in Components(path_arg) : ~fnmatch(c, p)

\* the preconditions of the last scan passed
PreconditionsPassed == Scanned /\ DirKind(scanned.directory_path) = "dir"

\* C15 as claimed: once the root exists and is a directory, scan_directory
\* returns a mapping and never raises, for every algorithm name and every
\* kind of entry listed as a file.
C15_NeverRaises ==
    PreconditionsPassed => scanned.trace.raised = "none"

\* calculate_file_hash answers the file of slot s with a ValueError: the
\* entry exists and is not a regular file, or the algorithm is not supported
NotHashable(s) ==
    /\ scanned.tree[s].cond # "gone"
    /\ \/ scanned.tree[s].cond = "fifo"
       \/ scanned.algorithm \notin SUPPORTED_ALGORITHMS

\* C15: once the root exists and is a directory, scan_directory raises
\* exactly when a non-ignored entry is not a regular file or the algorithm is
\* not supported while a non-ignored file is there, and then with ValueError;
\* otherwise it returns a mapping, for readable and unreadable regular files
\* and files removed during the scan, and leaves out what could not be hashed.
C15_RaisesOnlyValueError ==
    PreconditionsPassed =>
        /\ scanned.trace.raised \in {"none", "ValueError"}
        /\ scanned.trace.raised = "ValueError" <=>
               (\E s \in Slots : NotIgnored(s) /\ NotHashable(s))
        /\ scanned.trace.raised = "none" =>
               \A s \in Slots :
                   SlotPath(s) \in DOMAIN scanned.trace.results
                       => calculate_file_hash(scanned.tree[s], scanned.algorithm).err = "none"

\* a scan of a file removed during the scan and of a file that cannot be
\* stat-ed returns
C15_Witness ==
    /\ out.op = "scan"
    /\ PreconditionsPassed
    /\ scanned.algorithm \in SUPPORTED_ALGORITHMS
    /\ scanned.tree[fA].cond = "gone"
    /\ scanned.tree[fC].cond = "statfail"
    /\ scanned.trace.raised = "none"
    /\ scanned.trace.failed = {SlotPath(fA), SlotPath(fC)}

\* the paths of the files that the root directory itself lists
TopFiles ==
    { SlotPath(s) : s \in { t \in Slots : Len(t) = 1 /\ scanned.tree[t].exists } }

\* C16: should_ignore is given the path joined with the root argument as
\* passed; when the root argument itself satisfies should_ignore, every
\* subdirectory is pruned and every file is skipped, and scan_directory
\* returns an empty mapping whatever the tree holds.
C16_IgnoredRoot ==
    (PreconditionsPassed
     /\ should_ignore(scanned.patterns, scanned.directory_path)) =>
        /\ scanned.trace.raised = "none"
        /\ scanned.trace.results = EmptyDict
        /\ scanned.trace.visited = {scanned.directory_path}
        /\ scanned.trace.tested = TopFiles
        /\ scanned.trace.hashed = {}
        /\ scanned.trace.skipped_count = Cardinality(TopFiles)

\* a root whose path only contains 'env' inside a component, holding a
\* readable file with a name no pattern matches and a file in a subdirectory
C16_Witness ==
    /\ out.op = "scan"
    /\ scanned.directory_path = <<"/","w","/","m","y","e","n","v","s">>
    /\ scanned.tree[fA].exists
    /\ scanned.tree[fA].cond = "ok"
    /\ scanned.tree[fC].exists
    /\ ~should_ignore(scanned.patterns, fA[1])
    /\ scanned.trace.results = EmptyDict
    /\ out.err = "none"

\* the check ran on the baseline that the last create_baseline wrote, with
\* the tree and .fimignore as they were
Rechecked ==
    /\ out.op = "check"
    /\ out.err = "none"
    /\ made.valid
    /\ fs = made.fs
    /\ ignfile = made.ignfile

\* a directory string without its one trailing separator
NoTrailingSep(d) ==
    IF Len(d) > 1 /\ d[Len(d)] = sep THEN SubSeq(d, 1, Len(d) - 1) ELSE d

\* every file is reported unchanged
AllUnchanged ==
    /\ changes.modified = <<>>
    /\ changes.added = <<>>
    /\ changes.deleted = <<>>
    /\ Range(changes.unchanged) = DOMAIN current_files

\* every baseline path is reported deleted and every current path added
AllReplaced ==
    /\ changes.modified = <<>>
    /\ changes.unchanged = <<>>
    /\ Range(DeletedPaths) = DOMAIN baseline_files
    /\ Range(AddedPaths) = DOMAIN current_files

\* the keys are the directory argument as passed, joined with the sub-path
KeysAsPassed ==
    /\ \A p \in DOMAIN current_files :
           IsPrefix(NoTrailingSep(scanned.directory_path) \o <<sep>>, p)
    /\ \A p \in DOMAIN baseline_files :
           IsPrefix(NoTrailingSep(made.directory_path) \o <<sep>>, p)
    /\ Cardinality(DOMAIN current_files) = Cardinality(DOMAIN baseline_files)

C17_TrailingSep ==
    /\ Rechecked
    /\ made.directory_path = TreeArg
    /\ scanned.directory_path = TreeArg \o <<sep>>
    /\ Len(changes.unchanged) = 2

====
